---- MODULE Spec2Model ----
(***************************************************************************)
(* tsc-trace: per-thread ring buffer of (tag, start, stop) triples, the    *)
(* TraceSpan handle that commits on drop, the insert_trace! bypass and the *)
(* two exporters (src/src/lib.rs).                                         *)
(*                                                                         *)
(* The cargo features that change behaviour (const_array, off) and the     *)
(* profile's overflow checks are fixed at build time: Init picks one build *)
(* and no action changes it.  Every thread owns one copy of the            *)
(* thread_local! statics TSC_TRACE_SPANS and TSC_TRACE_INDEX.              *)
(*                                                                         *)
(* count, own, lost, twin and calls are history variables: they record how *)
(* many commits a thread made, which commit wrote which slot group and     *)
(* with what arguments, the TraceSpans destroyed without a commit, the     *)
(* statics the build with the other storage strategy would hold after the  *)
(* same commits, and the macro invocations that expanded to nothing.  So   *)
(* is the field born of a TraceSpan.  No action reads them to decide what  *)
(* the program does.                                                       *)
(***************************************************************************)
EXTENDS Integers, Sequences, FiniteSets, TLC

VARIABLES
    features,   \* the build: [const_array, off, overflow_checks]
    spans,      \* TSC_TRACE_SPANS, one per thread: sequence of words
    index,      \* TSC_TRACE_INDEX, one per thread
    handles,    \* per thread: the TraceSpan values alive, innermost scope last
    exp,        \* per thread: the export call in progress, if any
    count,      \* history: per thread, the calls of _insert_trace that went through
    own,        \* history: per thread and slot group, the commit that wrote it
    lost,       \* history: per thread, TraceSpans destroyed without a commit
    twin,       \* history: per thread, the statics under the other storage strategy
    calls,      \* history: per thread, macro invocations that expanded to nothing
    quota       \* per thread, the commits and TraceSpans its code makes in all

vars == <<features, spans, index, handles, exp, count, own, lost, twin, calls, quota>>

---------------------------------------------------------------------------
(* Bounds of the model *)

\* TSC_TRACE_CAPACITY of a build without feature "off" (1_000_000 .. 64_000_000
\* in the source), scaled down
EnabledCapacity == 2

\* commits and TraceSpans the code of one thread makes in one behaviour
MaxCommits == 4

\* TraceSpans alive at once on one thread
MaxOpen == 2

\* width of a word in the wrapping subtraction (64 in the source; TLC integers
\* are 32-bit)
U64Bits == 16

Threads == {"A", "B"}

\* the tag the code of a thread passes to trace_span! and insert_trace!
Tags(th) == IF th = "A" THEN {1} ELSE {2}

\* values rdtsc() returns
Ticks == {1, 2}

\* start and stop arguments of insert_trace!: a stop of zero, a stop below the
\* start, a stop above the start
InsertArgs == {<<2, 0>>, <<2, 1>>, <<1, 2>>}

\* number of write calls of one export that succeed before the sink fails
FailPieces == {0, 2}

---------------------------------------------------------------------------
(* Build configuration *)

\* a bug: feature "off" leaves the capacity as it is
CapacityDespiteOff == EnabledCapacity

TSC_TRACE_CAPACITY == IF features.off THEN 0 ELSE EnabledCapacity

CAPACITY == TSC_TRACE_CAPACITY * 3

Builds == [const_array : BOOLEAN, off : BOOLEAN, overflow_checks : BOOLEAN]

RECURSIVE Zeros(_)
Zeros(n) == IF n = 0 THEN <<>> ELSE <<0>> \o Zeros(n - 1)

\* the initial value of TSC_TRACE_SPANS: [0; CAPACITY] with feature
\* const_array, an empty Vec without
InitSpans(const_array) == IF const_array THEN Zeros(CAPACITY) ELSE <<>>

---------------------------------------------------------------------------
(* _insert_trace *)

\* the checked index expressions spans[i], spans[i + 1], spans[i + 2]
InBounds(sp, i) == i + 2 < Len(sp)

\* a bug: start and stop stored in each other's word
WriteAtSwapped(sp, i, tag, start, stop) ==
    [sp EXCEPT ![i + 1] = tag, ![i + 2] = stop, ![i + 3] = start]

\* a bug: the write also clears the tag of the slot group that follows
WriteAtWide(sp, i, tag, start, stop) ==
    [sp EXCEPT ![i + 1] = tag, ![i + 2] = start, ![i + 3] = stop,
               ![((i + 3) % Len(sp)) + 1] = 0]

WriteAt(sp, i, tag, start, stop) ==
    [sp EXCEPT ![i + 1] = tag, ![i + 2] = start, ![i + 3] = stop]

\* a bug: the cursor is read as 0 whatever was stored
EffectiveIndexZero(idx) == 0

\* a bug: the cursor wraps one slot group early
EffectiveIndexEarly(idx) == IF idx + 3 >= CAPACITY THEN 0 ELSE idx

\* the cursor read at the top of _insert_trace
EffectiveIndex(idx) == IF idx >= CAPACITY THEN 0 ELSE idx

\* a bug: the cursor wraps when it is stored, not when it is read
NextIndexWrapped(i) == IF i + 3 >= CAPACITY THEN 0 ELSE i + 3

\* a bug: the cursor advances by two words
NextIndexShort(i) == i + 2

\* the value handed to index.set
NextIndex(i) == i + 3

\* a bug: the growing strategy never stops pushing
GrowsAlways(const_array, sp) == ~const_array

\* the branch of the growing strategy that pushes instead of overwriting
Grows(const_array, sp) == ~const_array /\ Len(sp) < CAPACITY

\* The body of _insert_trace on one thread's statics, in a build with or
\* without feature const_array.  ok is FALSE when an index expression panics;
\* at is the word offset the triple went to.
InsertTrace(const_array, sp, idx, tag, start, stop) ==
    LET i == EffectiveIndex(idx) IN
    IF Grows(const_array, sp)
    THEN [ok |-> TRUE, spans |-> sp \o <<tag, start, stop>>,
          index |-> NextIndex(i), at |-> Len(sp)]
    ELSE IF InBounds(sp, i)
         THEN [ok |-> TRUE, spans |-> WriteAt(sp, i, tag, start, stop),
               index |-> NextIndex(i), at |-> i]
         ELSE [ok |-> FALSE, spans |-> sp, index |-> idx, at |-> i]

---------------------------------------------------------------------------
(* Thread-local statics *)

\* a bug: plain statics, shared by all threads
LocalShared(th) == "A"

\* thread_local!: the statics a thread reaches through TSC_TRACE_SPANS.with and
\* TSC_TRACE_INDEX.with are its own
Local(th) == th

---------------------------------------------------------------------------
(* Exporters: pure parts *)

\* spans.chunks_exact(3): the number of chunks, and chunk c counted from 0
NumChunks(sp) == Len(sp) \div 3

Chunk(sp, c) == <<sp[3 * c + 1], sp[3 * c + 2], sp[3 * c + 3]>>

U64Mod == 2 ^ U64Bits

\* stop - start on u64 in a build without overflow checks
WrappingSub(a, b) == (a - b + U64Mod) % U64Mod

DigitChars == <<"0", "1", "2", "3", "4", "5", "6", "7", "8", "9">>

\* Display for u64: the decimal digits, most significant first
RECURSIVE Decimal(_)
Decimal(n) ==
    IF n < 10 THEN <<DigitChars[n + 1]>>
    ELSE Decimal(n \div 10) \o <<DigitChars[(n % 10) + 1]>>

\* writeln!(writer, "{tag},{start},{stop},{}", stop - start): the strings
\* handed to the writer, one write call each
LinePieces(chunk) ==
    << Decimal(chunk[1]), <<",">>, Decimal(chunk[2]), <<",">>,
       Decimal(chunk[3]), <<",">>,
       Decimal(WrappingSub(chunk[3], chunk[2])), <<"\n">> >>

RECURSIVE Concat(_)
Concat(ss) == IF ss = <<>> THEN <<>> ELSE Head(ss) \o Concat(Tail(ss))

Line(chunk) == Concat(LinePieces(chunk))

\* the first k pieces of a line, k capped at all but the last
LinePrefix(chunk, k) ==
    LET ps == LinePieces(chunk)
        n  == IF k < Len(ps) THEN k ELSE Len(ps) - 1
    IN  Concat(SubSeq(ps, 1, n))

\* one u64 as it lies in memory on a little-endian machine
RECURSIVE LeBytes(_, _)
LeBytes(w, n) == IF n = 0 THEN <<>> ELSE <<w % 256>> \o LeBytes(w \div 256, n - 1)

\* bytemuck::cast_slice::<u64, u8>
RECURSIVE CastSlice(_)
CastSlice(sp) == IF sp = <<>> THEN <<>> ELSE LeBytes(Head(sp), 8) \o CastSlice(Tail(sp))

\* the bytes of the first k words, k capped below the whole slice
BytesPrefix(sp, k) ==
    LET n == IF k < Len(sp) THEN k ELSE 0
    IN  CastSlice(SubSeq(sp, 1, n))

---------------------------------------------------------------------------
(* Export calls in progress *)

\* pc: "idle", "csv" or "bin" (inside a write call of the sink), "done"
\* (returned or unwound; res says how).  snap is history: the statics as the
\* exporter found them.
Idle == [pc |-> "idle", kind |-> "none", pos |-> 0, out |-> <<>>, res |-> "none",
         snap |-> <<>>, snapIndex |-> 0]

\* an exporter of kind k entered on statics sp, idx
Entered(k, sp, idx) == [Idle EXCEPT !.kind = k, !.snap = sp, !.snapIndex = idx]

\* the shared borrow `spans.borrow()` is alive while the exporter is inside a
\* write call of the sink
Borrowed(th) == exp[th].pc \in {"csv", "bin"}

Returned(e, r) == [e EXCEPT !.pc = "done", !.res = r]

\* a bug: the buffer is written without looking at the borrow flag
BorrowMutNever(th) == FALSE

\* spans.borrow_mut() in _insert_trace panics when a borrow is alive
BorrowMutPanics(th) == Borrowed(th)

\* the line of chunk e.pos has gone to the sink
TakeLine(e, sp) == [e EXCEPT !.out = @ \o Line(Chunk(sp, e.pos)), !.pos = @ + 1]

\* The loop of write_traces_csv from chunk e.pos to its next write call, or to
\* its return.
CsvScan(e, sp) ==
    IF e.pos >= NumChunks(sp) THEN Returned(e, "Ok")
    ELSE LET c == Chunk(sp, e.pos) IN
         IF c[3] = 0 THEN Returned(e, "Ok")
         ELSE IF features.overflow_checks /\ c[3] < c[2]
         THEN Returned(e, "PanicOverflow")
         ELSE [e EXCEPT !.pc = "csv"]

\* write_traces_csv on statics sp with a sink that takes every line: the
\* exporter's last state
RECURSIVE CsvRest(_, _)
CsvRest(e, sp) ==
    IF e.pc = "done" THEN e ELSE CsvRest(CsvScan(TakeLine(e, sp), sp), sp)

CsvOutput(sp) ==
    LET e == CsvRest(CsvScan(Entered("csv", sp, 0), sp), sp) IN <<e.res, e.out>>

\* write_traces_binary on statics sp with a sink that takes every byte
BinaryOutput(sp) == CastSlice(sp)

---------------------------------------------------------------------------
(* State *)

NoCommit == [n |-> 0, triple |-> <<0, 0, 0>>, via |-> "none"]

RECURSIVE Fresh(_)
Fresh(n) == IF n = 0 THEN <<>> ELSE <<NoCommit>> \o Fresh(n - 1)

InitWith(q) ==
    /\ features \in Builds
    /\ spans = [th \in Threads |-> InitSpans(features.const_array)]
    /\ index = [th \in Threads |-> 0]
    /\ handles = [th \in Threads |-> <<>>]
    /\ exp = [th \in Threads |-> Idle]
    /\ count = [th \in Threads |-> 0]
    /\ own = [th \in Threads |-> Fresh(NumChunks(InitSpans(features.const_array)))]
    /\ lost = [th \in Threads |-> 0]
    /\ twin = [th \in Threads |->
                 [spans |-> InitSpans(~features.const_array), index |-> 0]]
    /\ calls = [th \in Threads |-> 0]
    /\ quota = q

\* one thread traces; the other one only exports its untouched buffer
Init == InitWith([th \in Threads |-> IF th = "A" THEN MaxCommits ELSE 0])

\* two threads trace side by side, two commits or TraceSpans each
InitThreads == InitWith([th \in Threads |-> 2])

\* commits made, TraceSpans alive, TraceSpans lost and empty macro expansions
\* on one thread
Load(th) == count[th] + Len(handles[th]) + lost[th] + calls[th]

\* the code of thread th has another commit or TraceSpan to make
Room(th) == Load(th) < quota[th]

\* a thread enters an exporter only while no other thread is inside one: this
\* bounds the interleavings of the model, not the program
NoOtherExport(th) == \A o \in Threads \ {th} : exp[o].pc = "idle"

\* slot group g of the history `own` written by commit number n
Mark(o, g, n, triple, via) ==
    LET c == [n |-> n, triple |-> triple, via |-> via]
    IN  IF g > Len(o) THEN Append(o, c) ELSE [o EXCEPT ![g] = c]

\* a call of _insert_trace on thread th goes through: borrow_mut finds no
\* borrow alive and no index expression panics
CommitOk(th, tag, start, stop) ==
    /\ ~BorrowMutPanics(th)
    /\ InsertTrace(features.const_array, spans[Local(th)], index[Local(th)],
                   tag, start, stop).ok

\* One call _insert_trace(tag, start, stop) on thread th.  With the exporter's
\* borrow alive, borrow_mut panics before anything is written and the panic
\* unwinds out of the exporter.
Commit(th, tag, start, stop, via) ==
    LET me == Local(th)
        r  == InsertTrace(features.const_array, spans[me], index[me], tag, start, stop)
        t  == InsertTrace(~features.const_array, twin[th].spans, twin[th].index,
                          tag, start, stop)
    IN  IF BorrowMutPanics(th)
        THEN /\ exp' = [exp EXCEPT ![th] = Returned(@, "PanicBorrow")]
             /\ UNCHANGED <<spans, index, count, own, twin>>
        ELSE IF r.ok
        THEN /\ spans' = [spans EXCEPT ![me] = r.spans]
             /\ index' = [index EXCEPT ![me] = r.index]
             /\ count' = [count EXCEPT ![th] = @ + 1]
             /\ own' = [own EXCEPT ![th] =
                          Mark(@, (r.at \div 3) + 1, count[th] + 1, <<tag, start, stop>>, via)]
             /\ twin' = [twin EXCEPT ![th] = [spans |-> t.spans, index |-> t.index]]
             /\ UNCHANGED exp
        ELSE UNCHANGED <<spans, index, count, own, twin, exp>>

---------------------------------------------------------------------------
(* Actions *)

\* insert_trace!(tag, start, stop): nothing in a build with feature "off".
\* Called from the thread's code, or from inside a write call of the sink.
insert_trace(th, tag, start, stop) ==
    /\ exp[th].pc # "done"
    /\ Room(th)
    /\ IF features.off
       THEN UNCHANGED <<spans, index, count, own, twin, exp>>
       ELSE Commit(th, tag, start, stop, "insert")
    /\ calls' = IF features.off THEN [calls EXCEPT ![th] = @ + 1] ELSE calls
    /\ UNCHANGED <<features, quota, handles, lost>>

\* TraceSpan::new(tag) when rdtsc() returns start; born is history, the number
\* of commits the thread had made by then
TraceSpan(tag, start, n) == [tag |-> tag, start |-> start, born |-> n]

\* trace_span!(tag): TraceSpan::new reads the counter; nothing in a build with
\* feature "off"
trace_span(th, tag, rdtsc) ==
    /\ exp[th].pc = "idle"
    /\ Room(th)
    /\ Len(handles[th]) < MaxOpen
    /\ handles' = IF features.off THEN handles
                  ELSE [handles EXCEPT ![th] = Append(@, TraceSpan(tag, rdtsc, count[th]))]
    /\ calls' = IF features.off THEN [calls EXCEPT ![th] = @ + 1] ELSE calls
    /\ UNCHANGED <<features, quota, spans, index, exp, count, own, lost, twin>>

\* a bug: the drop passes its counter reading as start
DropArgsSwapped(h, rdtsc) == <<h.tag, rdtsc, h.start>>

\* the arguments Drop for TraceSpan passes to _insert_trace
DropArgs(h, rdtsc) == <<h.tag, h.start, rdtsc>>

\* a bug: the scope drops the local declared first
Outermost(hs) == hs[1]

\* locals of a scope are dropped in reverse order of declaration: the TraceSpan
\* dropped next is the one made last
Innermost(hs) == hs[Len(hs)]

\* the innermost TraceSpan of thread th goes out of scope
Drop(th, rdtsc) ==
    /\ exp[th].pc = "idle"
    /\ handles[th] # <<>>
    /\ LET a == DropArgs(Innermost(handles[th]), rdtsc)
       IN  Commit(th, a[1], a[2], a[3], "span")
    /\ handles' = [handles EXCEPT ![th] = SubSeq(@, 1, Len(@) - 1)]
    /\ UNCHANGED <<features, quota, calls, lost>>

\* The sink's write method holds a trace_span! of its own: inside a write call
\* of an exporter the TraceSpan is made and, at the end of the method, dropped.
sink_trace_span(th, tag, start, stop) ==
    /\ Borrowed(th)
    /\ ~features.off
    /\ Room(th)
    /\ LET a == DropArgs(TraceSpan(tag, start, count[th]), stop)
       IN  /\ Commit(th, a[1], a[2], a[3], "span")
           /\ lost' = IF CommitOk(th, a[1], a[2], a[3]) THEN lost
                      ELSE [lost EXCEPT ![th] = @ + 1]
    /\ UNCHANGED <<features, quota, calls, handles>>

\* write_traces_csv(writer) up to its first write call or its return
write_traces_csv(th) ==
    /\ exp[th].pc = "idle"
    /\ NoOtherExport(th)
    /\ exp' = [exp EXCEPT ![th] =
                 CsvScan(Entered("csv", spans[Local(th)], index[Local(th)]),
                         spans[Local(th)])]
    /\ UNCHANGED <<features, quota, calls, spans, index, handles, count, own, lost, twin>>

\* write_traces_binary(writer) up to its write_all call; write_all of an empty
\* slice returns Ok without calling the sink
write_traces_binary(th) ==
    /\ exp[th].pc = "idle"
    /\ NoOtherExport(th)
    /\ exp' = [exp EXCEPT ![th] =
                 LET e == Entered("bin", spans[Local(th)], index[Local(th)])
                 IN  IF spans[Local(th)] = <<>> THEN Returned(e, "Ok")
                     ELSE [e EXCEPT !.pc = "bin"]]
    /\ UNCHANGED <<features, quota, calls, spans, index, handles, count, own, lost, twin>>

\* The sink takes the whole line (csv) or the whole slice (binary); the exporter
\* runs on to its next write call or returns.
SinkOk(th) ==
    /\ Borrowed(th)
    /\ LET e  == exp[th]
           sp == spans[Local(th)]
       IN  exp' = [exp EXCEPT ![th] =
                     IF e.pc = "csv"
                     THEN CsvScan(TakeLine(e, sp), sp)
                     ELSE Returned([e EXCEPT !.out = CastSlice(sp)], "Ok")]
    /\ UNCHANGED <<features, quota, calls, spans, index, handles, count, own, lost, twin>>

\* The sink fails after taking k pieces of the line (csv) or k words of the
\* slice (binary); the exporter returns the error.
SinkErr(th, k) ==
    /\ Borrowed(th)
    /\ LET e  == exp[th]
           sp == spans[Local(th)]
       IN  exp' = [exp EXCEPT ![th] =
                     IF e.pc = "csv"
                     THEN Returned([e EXCEPT !.out = @ \o LinePrefix(Chunk(sp, e.pos), k)], "Err")
                     ELSE Returned([e EXCEPT !.out = BytesPrefix(sp, k)], "Err")]
    /\ UNCHANGED <<features, quota, calls, spans, index, handles, count, own, lost, twin>>

\* the caller takes the exporter's result (or catches its panic) and goes on
ExportReturn(th) ==
    /\ exp[th].pc = "done"
    /\ exp' = [exp EXCEPT ![th] = Idle]
    /\ UNCHANGED <<features, quota, calls, spans, index, handles, count, own, lost, twin>>

Next ==
    \/ \E th \in Threads, a \in InsertArgs :
           \E tag \in Tags(th) : insert_trace(th, tag, a[1], a[2])
    \/ \E th \in Threads, rdtsc \in Ticks :
           \E tag \in Tags(th) : trace_span(th, tag, rdtsc)
    \/ \E th \in Threads, rdtsc \in Ticks : Drop(th, rdtsc)
    \/ \E th \in Threads, start \in Ticks, stop \in Ticks :
           \E tag \in Tags(th) : sink_trace_span(th, tag, start, stop)
    \/ \E th \in Threads : write_traces_csv(th)
    \/ \E th \in Threads : write_traces_binary(th)
    \/ \E th \in Threads : SinkOk(th)
    \/ \E th \in Threads, k \in FailPieces : SinkErr(th, k)
    \/ \E th \in Threads : ExportReturn(th)

Spec == Init /\ [][Next]_vars

SpecThreads == InitThreads /\ [][Next]_vars

---------------------------------------------------------------------------
(* Properties *)

Min(a, b) == IF a < b THEN a ELSE b

\* ring position k (from 0) of thread th holds the triple passed to the
\* thread's n-th commit (from 1)
SlotHolds(th, k, n) ==
    /\ k < NumChunks(spans[th])
    /\ k < Len(own[th])
    /\ own[th][k + 1].n = n
    /\ Chunk(spans[th], k) = own[th][k + 1].triple

\* the slot groups of thread th that hold a committed triple
LiveSlots(th) == {k \in 0 .. NumChunks(spans[th]) - 1 : \E n \in 1 .. count[th] : SlotHolds(th, k, n)}

\* C1: after N commits on a thread the buffer holds min(N, TSC_TRACE_CAPACITY)
\* live triples, with the fixed array and with the growing Vec.
C1_CapacityBound ==
    \A th \in Threads :
        Cardinality(LiveSlots(th)) = Min(count[th], TSC_TRACE_CAPACITY)

\* C1 witness: a growing Vec that wrapped and holds TSC_TRACE_CAPACITY triples
C1_Wrapped ==
    \E th \in Threads :
        /\ ~features.const_array
        /\ count[th] > TSC_TRACE_CAPACITY
        /\ Cardinality(LiveSlots(th)) = EnabledCapacity

\* the slot groups the history gives to the thread's n-th commit (from 1)
SlotsOfCommit(th, n) == {g \in 1 .. Len(own[th]) : own[th][g].n = n}

\* C2 as claimed: after exactly TSC_TRACE_CAPACITY + k commits, the triple at
\* ring position k equals the triple passed to commit number
\* TSC_TRACE_CAPACITY + k, the last one made.
C2_AsClaimed ==
    \A th \in Threads : \A k \in 0 .. TSC_TRACE_CAPACITY - 1 :
        count[th] = TSC_TRACE_CAPACITY + k =>
            \A g \in SlotsOfCommit(th, TSC_TRACE_CAPACITY + k) :
                Chunk(spans[th], k) = own[th][g].triple

\* C2 amended: after exactly TSC_TRACE_CAPACITY + k + 1 commits, ring position
\* k holds the triple of the last of them (commit TSC_TRACE_CAPACITY + k
\* counted from 0).
C2_Wraparound ==
    \A th \in Threads : \A k \in 0 .. TSC_TRACE_CAPACITY - 1 :
        count[th] = TSC_TRACE_CAPACITY + k + 1
            => SlotHolds(th, k, TSC_TRACE_CAPACITY + k + 1)

\* C2 witness: two full sweeps, the last slot group rewritten by the last commit
C2_SecondSweep ==
    \E th \in Threads :
        /\ count[th] = 2 * EnabledCapacity
        /\ SlotHolds(th, EnabledCapacity - 1, 2 * EnabledCapacity)

\* C3 as claimed: the stored cursor is a multiple of 3 in [0, CAPACITY).
C3_AsClaimed ==
    \A th \in Threads :
        ~features.off => index[th] % 3 = 0 /\ 0 <= index[th] /\ index[th] < CAPACITY

\* C3 amended: the stored cursor is a multiple of 3 in [0, CAPACITY]; the
\* commit that fills the last slot group stores CAPACITY, and the reset to 0 is
\* made by the next commit when it reads the cursor.
C3_Cursor ==
    \A th \in Threads :
        /\ index[th] % 3 = 0
        /\ 0 <= index[th] /\ index[th] <= CAPACITY
        /\ count[th] > 0 =>
              index[th] = 3 * (((count[th] - 1) % TSC_TRACE_CAPACITY) + 1)

\* C3 witness: a sweep has just ended and the stored cursor is CAPACITY
C3_CursorAtCapacity ==
    \E th \in Threads : count[th] > EnabledCapacity /\ index[th] = CAPACITY

\* an exporter of kind k has come back on thread th with result r
Done(th, k, r) == exp[th].pc = "done" /\ exp[th].kind = k /\ exp[th].res = r

\* what the claims expect of the binary export for slot group k of thread th
ExpectedSlotBytes(th, k) ==
    IF k < Len(own[th]) /\ own[th][k + 1].n # 0
    THEN CastSlice(own[th][k + 1].triple)
    ELSE Zeros(24)

RECURSIVE ExpectedBinary(_, _)
ExpectedBinary(th, k) ==
    IF k >= TSC_TRACE_CAPACITY THEN <<>>
    ELSE ExpectedSlotBytes(th, k) \o ExpectedBinary(th, k + 1)

\* C4 as claimed: a binary export that returns Ok has written exactly
\* 24 * TSC_TRACE_CAPACITY bytes, the committed triples as little-endian words
\* and 24 zero bytes for every slot group never committed, whatever the number
\* of commits and the storage strategy.
C4_AsClaimed ==
    \A th \in Threads :
        Done(th, "bin", "Ok") =>
            /\ Len(exp[th].out) = 24 * TSC_TRACE_CAPACITY
            /\ exp[th].out = ExpectedBinary(th, 0)

\* the triple passed to the n-th commit of thread th, while it is live
TripleOfCommit(th, n) ==
    own[th][CHOOSE g \in 1 .. Len(own[th]) : own[th][g].n = n].triple

\* the text the claims expect for commits j .. m of thread th
RECURSIVE ExpectedText(_, _, _)
ExpectedText(th, j, m) ==
    IF j > m THEN <<>>
    ELSE LET t == TripleOfCommit(th, j)
         IN  Decimal(t[1]) \o <<",">> \o Decimal(t[2]) \o <<",">> \o Decimal(t[3])
             \o <<",">> \o Decimal((t[3] - t[2]) % U64Mod) \o <<"\n">>
             \o ExpectedText(th, j + 1, m)

\* every commit of thread th so far passed a stop that is not zero
NonzeroStops(th) ==
    \A g \in 1 .. Len(own[th]) : own[th][g].n # 0 => own[th][g].triple[3] # 0

\* C5 as claimed: after M < TSC_TRACE_CAPACITY commits with nonzero stops on a
\* fresh buffer, a text export whose sink takes every write (and commits
\* nothing itself) returns Ok with exactly the M lines tag,start,stop,stop-start
\* in commit order.
C5_AsClaimed ==
    \A th \in Threads :
        (/\ exp[th].pc = "done" /\ exp[th].kind = "csv"
         /\ exp[th].res \notin {"Err", "PanicBorrow"}
         /\ count[th] < TSC_TRACE_CAPACITY
         /\ NonzeroStops(th))
        => /\ exp[th].res = "Ok"
           /\ exp[th].out = ExpectedText(th, 1, count[th])

\* C6 as claimed: after the same commits the build with the fixed array and the
\* build with the growing Vec export the same text and the same bytes.
C6_AsClaimed ==
    \A th \in Threads :
        /\ CsvOutput(spans[th]) = CsvOutput(twin[th].spans)
        /\ BinaryOutput(spans[th]) = BinaryOutput(twin[th].spans)

\* C7: making a TraceSpan changes neither buffer nor cursor, and its drop
\* leaves the buffer and cursor that _insert_trace(tag, start, stop) leaves,
\* with the tag and the counter reading the TraceSpan was made with and the
\* counter reading at the drop.
C7_DirectInsertEquivalence ==
    [][\A th \in Threads :
         /\ Len(handles'[th]) > Len(handles[th]) =>
                spans' = spans /\ index' = index
         /\ Len(handles'[th]) < Len(handles[th]) =>
                \E stop \in Ticks :
                    LET h == handles[th][Len(handles[th])]
                        r == InsertTrace(features.const_array, spans[th], index[th],
                                         h.tag, h.start, stop)
                        c == [n |-> count[th] + 1, triple |-> <<h.tag, h.start, stop>>,
                              via |-> "span"]
                    IN  /\ r.ok
                        /\ spans'[th] = r.spans
                        /\ index'[th] = r.index
                        /\ own'[th][(r.at \div 3) + 1] = c]_vars

\* C7 witness: a TraceSpan made with one counter reading was dropped at
\* another, and the triple is in the buffer
C7_SpanCommitted ==
    \E th \in Threads : \E k \in 0 .. NumChunks(spans[th]) - 1 :
        /\ k < Len(own[th])
        /\ own[th][k + 1].via = "span"
        /\ own[th][k + 1].triple[2] # own[th][k + 1].triple[3]
        /\ Chunk(spans[th], k) = own[th][k + 1].triple

\* the cursor a thread's own commits leave
CursorAfter(n) ==
    IF n = 0 THEN 0 ELSE 3 * (((n - 1) % TSC_TRACE_CAPACITY) + 1)

\* the length of the buffer after a thread's own commits
LenAfter(n) ==
    IF features.const_array THEN CAPACITY ELSE 3 * Min(n, TSC_TRACE_CAPACITY)

\* C8: whatever the other thread does, a thread's buffer and cursor are what
\* its own commits make them: every slot group holds the triple of the
\* thread's own commit that the history records for it (zeros if none), with
\* one of the thread's own tags; the cursor and the length follow from the
\* number of its own commits; and an exporter in progress sees that buffer.
C8_ThreadIsolation ==
    \A th \in Threads :
        /\ Len(spans[th]) = LenAfter(count[th])
        /\ Len(own[th]) = NumChunks(spans[th])
        /\ index[th] = CursorAfter(count[th])
        /\ \A k \in 0 .. NumChunks(spans[th]) - 1 :
              /\ Chunk(spans[th], k) = own[th][k + 1].triple
              /\ own[th][k + 1].n # 0 => Chunk(spans[th], k)[1] \in Tags(th)
        /\ exp[th].pc # "idle" =>
              exp[th].snap = spans[th] /\ exp[th].snapIndex = index[th]

\* C8 witness: both threads have committed and thread A has exported its buffer
C8_BothCommitted ==
    /\ count["A"] > 0 /\ count["B"] > 0
    /\ Done("A", "csv", "Ok")
    /\ exp["A"].out # <<>>

\* C9 as claimed: no TraceSpan goes away without its commit.
C9_AsClaimed == \A th \in Threads : lost[th] = 0

\* C10: when an exporter returns Ok or Err, the thread's buffer and cursor are
\* what the exporter found; the output of an export is a function of the
\* buffer (CsvOutput, BinaryOutput), so exporting again with a sink that takes
\* every write gives the whole output.
C10_ExportReadOnly ==
    \A th \in Threads :
        (exp[th].pc = "done" /\ exp[th].res \in {"Ok", "Err"}) =>
            /\ spans[th] = exp[th].snap
            /\ index[th] = exp[th].snapIndex

\* C10 witness: a text export has failed part-way through a buffer with commits
C10_FailedExport ==
    \E th \in Threads :
        Done(th, "csv", "Err") /\ exp[th].out # <<>> /\ count[th] > 1

\* the text of the first p records of buffer sp
RECURSIVE LinesBefore(_, _)
LinesBefore(sp, p) ==
    IF p = 0 THEN <<>> ELSE LinesBefore(sp, p - 1) \o Line(Chunk(sp, p - 1))

\* the part of an output made of whole lines
CompleteLines(out) ==
    LET ends == {i \in 1 .. Len(out) : out[i] = "\n"}
    IN  IF ends = {} THEN <<>>
        ELSE SubSeq(out, 1, CHOOSE i \in ends : \A j \in ends : j <= i)

\* C11 as claimed: a text export whose sink fails returns that error with the
\* lines of exactly the records before the failing one written, and a text
\* export whose sink never fails (and commits nothing itself) returns Ok.
C11_AsClaimed ==
    \A th \in Threads :
        (exp[th].pc = "done" /\ exp[th].kind = "csv" /\ exp[th].res # "PanicBorrow")
        => /\ exp[th].res = "Err" =>
                 /\ exp[th].pos < NumChunks(exp[th].snap)
                 /\ CompleteLines(exp[th].out) = LinesBefore(exp[th].snap, exp[th].pos)
           /\ exp[th].res # "Err" => exp[th].res = "Ok"

\* the position of the first triple of sp whose stop word is 0, or the number
\* of triples if there is none
FirstZeroStop(sp) ==
    LET zs == {k \in 0 .. NumChunks(sp) - 1 : Chunk(sp, k)[3] = 0}
    IN  IF zs = {} THEN NumChunks(sp)
        ELSE CHOOSE k \in zs : \A j \in zs : k <= j

\* C12 as claimed: whatever the buffer holds, a text export whose sink takes
\* every write emits exactly the triples before the first one with a stop word
\* of 0, all of them if there is none.
C12_AsClaimed ==
    \A th \in Threads :
        (exp[th].pc = "done" /\ exp[th].kind = "csv"
         /\ exp[th].res \notin {"Err", "PanicBorrow"})
        => exp[th].out = LinesBefore(exp[th].snap, FirstZeroStop(exp[th].snap))

\* C13 as claimed: a committed triple with 0 < stop < start does not make the
\* text export fail; its line carries (stop - start) mod 2^64 and the export
\* goes on.
C13_AsClaimed ==
    \A th \in Threads :
        /\ exp[th].res # "PanicOverflow"
        /\ \A k \in 0 .. NumChunks(exp[th].snap) - 1 :
              (/\ Done(th, "csv", "Ok")
               /\ k < FirstZeroStop(exp[th].snap)
               /\ Chunk(exp[th].snap, k)[3] < Chunk(exp[th].snap, k)[2])
              => LinesBefore(exp[th].snap, k + 1) =
                     SubSeq(exp[th].out, 1, Len(LinesBefore(exp[th].snap, k + 1)))

\* C14: in a build with feature "off", whatever trace_span! and insert_trace!
\* invocations the threads make, every buffer is empty as at the start, every
\* cursor is 0, no TraceSpan exists, and an exporter returns Ok without
\* having written anything.
C14_DisabledMode ==
    features.off =>
        \A th \in Threads :
            /\ TSC_TRACE_CAPACITY = 0
            /\ spans[th] = InitSpans(features.const_array)
            /\ index[th] = 0
            /\ handles[th] = <<>>
            /\ count[th] = 0
            /\ exp[th].pc \notin {"csv", "bin"}
            /\ exp[th].pc = "done" => exp[th].res = "Ok" /\ exp[th].out = <<>>
            /\ CsvOutput(spans[th]) = <<"Ok", <<>>>>
            /\ BinaryOutput(spans[th]) = <<>>

\* C14 witness: after macro invocations in a build with feature "off", an
\* exporter has returned
C14_DisabledExport ==
    \E th \in Threads :
        features.off /\ calls[th] >= 2 /\ exp[th].pc = "done"

\* the latest of the first n commits, counted from 0, that is congruent to p
\* modulo the capacity
LatestAt(p, n) ==
    CHOOSE m \in 0 .. n - 1 :
        /\ m % TSC_TRACE_CAPACITY = p
        /\ \A o \in 0 .. n - 1 : o % TSC_TRACE_CAPACITY = p => o <= m

\* the commit numbers, counted from 1, whose triples are in the buffer
LiveCommits(th) == {own[th][g].n : g \in 1 .. Len(own[th])} \ {0}

\* C15: after N commits on a thread, ring position p < min(N, capacity) holds
\* the triple of the latest commit congruent to p modulo the capacity (counted
\* from 0), and the buffer holds exactly the latest min(N, capacity) commits.
C15_OldestFirst ==
    \A th \in Threads :
        /\ \A p \in 0 .. Min(count[th], TSC_TRACE_CAPACITY) - 1 :
              SlotHolds(th, p, LatestAt(p, count[th]) + 1)
        /\ LiveCommits(th) =
              (count[th] - Min(count[th], TSC_TRACE_CAPACITY) + 1) .. count[th]

\* C15 witness: the commit after a full sweep has evicted the oldest triple
\* and no other
C15_OldestEvicted ==
    \E th \in Threads :
        /\ count[th] = EnabledCapacity + 1
        /\ SlotHolds(th, 0, EnabledCapacity + 1)
        /\ SlotHolds(th, 1, 2)
        /\ LiveCommits(th) = 2 .. EnabledCapacity + 1

\* C16: a step in which a thread commits writes the three arguments to words
\* i, i + 1, i + 2, where i is the stored cursor or 0 if that is CAPACITY or
\* more, leaves every other word as it was and stores i + 3; no other step
\* changes the thread's buffer or cursor.
C16_OneSlotGroup ==
    [][\A th \in Threads :
         IF count'[th] = count[th] + 1
         THEN LET i == IF index[th] >= CAPACITY THEN 0 ELSE index[th]
                  c == own'[th][(i \div 3) + 1]
              IN  /\ i % 3 = 0
                  /\ c.n = count'[th]
                  /\ Len(spans'[th]) >= i + 3
                  /\ Len(spans'[th]) >= Len(spans[th])
                  /\ <<spans'[th][i + 1], spans'[th][i + 2], spans'[th][i + 3]>> = c.triple
                  /\ \A j \in 1 .. Len(spans'[th]) :
                        (j < i + 1 \/ j > i + 3) =>
                            j <= Len(spans[th]) /\ spans'[th][j] = spans[th][j]
                  /\ index'[th] = i + 3
         ELSE spans'[th] = spans[th] /\ index'[th] = index[th]]_vars

\* C16 witness: the first commit after a full sweep has rewritten slot group 0
\* with other values and slot group 1 still holds the second commit
C16_NeighbourKept ==
    \E th \in Threads :
        /\ count[th] = EnabledCapacity + 1
        /\ index[th] = 3
        /\ own[th][2].n = 2
        /\ Chunk(spans[th], 1) = own[th][2].triple
        /\ Chunk(spans[th], 0) # Chunk(spans[th], 1)

\* C17 as claimed: no commit begins with a stored cursor of CAPACITY or more.
C17_AsClaimed ==
    [][\A th \in Threads :
         count'[th] > count[th] => index[th] < CAPACITY]_vars

\* C17: a commit begins with a stored cursor of CAPACITY or more exactly when
\* the thread has made a positive multiple of TSC_TRACE_CAPACITY commits
\* before it, and the stored cursor is then CAPACITY itself: the reset at the
\* top of _insert_trace is what wraps the ring, once per sweep.
C17_ResetOncePerSweep ==
    [][\A th \in Threads :
         count'[th] > count[th] =>
            /\ index[th] <= CAPACITY
            /\ index[th] >= CAPACITY <=>
                  (count[th] > 0 /\ count[th] % TSC_TRACE_CAPACITY = 0)
            /\ index[th] >= CAPACITY => index'[th] = 3]_vars

\* C17 witness: the commit after a full sweep found the stored cursor at
\* CAPACITY, reset it and wrote slot group 0
C17_ResetTaken ==
    \E th \in Threads :
        /\ count[th] = EnabledCapacity + 1
        /\ index[th] = 3
        /\ own[th][1].n = EnabledCapacity + 1
        /\ own[th][1].triple = Chunk(spans[th], 0)

\* C18: in a build with TSC_TRACE_CAPACITY >= 1 the next commit's writes are
\* inside the buffer: the Vec is never longer than CAPACITY, the stored cursor
\* equals its length while it is shorter, and where _insert_trace indexes, the
\* words i, i + 1, i + 2 of the effective cursor i exist.
C18_CommitInBounds ==
    ~features.off =>
        \A th \in Threads :
            LET i == IF index[th] >= CAPACITY THEN 0 ELSE index[th] IN
            /\ Len(spans[th]) <= CAPACITY
            /\ Len(spans[th]) % 3 = 0
            /\ (~features.const_array /\ Len(spans[th]) < CAPACITY) =>
                   index[th] = Len(spans[th])
            /\ (features.const_array \/ Len(spans[th]) >= CAPACITY) =>
                   i + 2 < Len(spans[th])
            /\ InsertTrace(features.const_array, spans[th], index[th], 0, 0, 0).ok

\* C18 witness: the Vec has reached CAPACITY and a later commit has gone
\* through the indexed writes
C18_FullVecOverwritten ==
    \E th \in Threads :
        /\ ~features.const_array
        /\ Len(spans[th]) = CAPACITY
        /\ count[th] = EnabledCapacity + 2
        /\ index[th] = CAPACITY

C20_ConsistentExport ==
    \A th \in Threads :
        exp[th].pc # "idle" =>
            /\ spans[th] = exp[th].snap
            /\ index[th] = exp[th].snapIndex
            /\ (exp[th].kind = "csv" /\ exp[th].res \in {"none", "Ok"}) =>
                   exp[th].out = LinesBefore(exp[th].snap, exp[th].pos)
            /\ Done(th, "csv", "Ok") =>
                   exp[th].pos = FirstZeroStop(exp[th].snap)
            /\ Done(th, "bin", "Ok") => exp[th].out = CastSlice(exp[th].snap)

\* C20 witness: a commit issued inside a write call of the sink, after part of
\* the buffer had been exported, has ended the export
C20_CommitInsideSink ==
    \E th \in Threads :
        /\ exp[th].pc = "done" /\ exp[th].res = "PanicBorrow"
        /\ exp[th].out # <<>>
        /\ lost[th] = 0

====
